---- MODULE Spec2Model ----
(***************************************************************************)
(* Bacon-Shor stabilizer visualisation tool: the Stabilizer algebra and    *)
(* the BaconShorCode time-step machine of                                  *)
(* Visulization_tool/BaconShorViz_Interactive.py.                          *)
(*                                                                         *)
(* A Stabilizer (its qubits_ops dict) is a function from a finite set of   *)
(* qubit ids to {"X","Y","Z"}; the empty function is the trivial term.     *)
(* Python sets and the list comprehensions built from them have no         *)
(* specified iteration order, so every result that depends on such an      *)
(* order is a set of possible results and the actions choose among them.   *)
(***************************************************************************)
EXTENDS Integers, Sequences, FiniteSets, TLC

VARIABLES
  rows, cols,              \* BaconShorCode.rows, .cols
  stabilizer_generators,   \* .stabilizer_generators, a set of Stabilizers
  time_step,               \* .time_step
  prev_measurements,       \* .prev_measurements
  current_measurements,    \* .current_measurements
  measurements_history,    \* .measurements_history
  selected_edges,          \* .selected_edges
  printed,                 \* the "Invalid measurement" lines of the last run_time_step
  arg, ret,                \* argument and result of the last call made by the caller
  submitted                \* pairs the caller has handed to run_time_step so far

vars == <<rows, cols, stabilizer_generators, time_step, prev_measurements,
          current_measurements, measurements_history, selected_edges, printed,
          arg, ret, submitted>>

(***************************************************************************)
(* Bounds of the model.                                                    *)
(***************************************************************************)
\* run_time_step calls, and pairs handed to them in total, by a direct caller
MaxSteps == 2
MaxPairs == 2
\* interactive sessions, and edges selected in them in total
SessionSteps == 3
SessionPairs == 3
\* qubits of the terms the Stabilizer methods are applied to
AlgQubits == 2
\* qubits and size of the generator sets simplify_stabilizers is applied to
SimpQubits == 2
SimpGens == 3
\* rows and columns of cells of the lattices the geometry is applied to
MaxRows == 3
MaxCols == 3
\* time steps explored on the 5x5-vertex example lattice
ScenarioSteps == 3
ScheduleSteps == 3
ResolveGens == 3

\* size = 5 of the example: a 5x5-vertex lattice has grid_size = size - 1 cells
ExampleSize == 5

NoMsg == ""
MsgNotExist == "Qubit does not exist in the grid."
MsgNotAdjacent == "Qubits are not adjacent."

(***************************************************************************)
(* Stabilizer                                                              *)
(***************************************************************************)
Symbols == {"X", "Y", "Z"}

\* all dicts {qubit: symbol} with keys in Q and values in O
TermsOver(Q, O) == UNION {[D -> O] : D \in SUBSET Q}

\* set(stab.qubits_ops.items())
Items(stab) == {<<q, stab[q]>> : q \in DOMAIN stab}

\* self.qubits_ops.get(q, 'I')
OpAt(stab, q) == IF q \in DOMAIN stab THEN stab[q] ELSE "I"

\* a slip in the comparison: the qubits that carry the measured symbol are counted
commutes_with_same(stab, measurement) ==
  LET anti_commuting_qubits ==
        Cardinality({i \in 1..Len(measurement.qubits) :
                       /\ OpAt(stab, measurement.qubits[i]) # "I"
                       /\ OpAt(stab, measurement.qubits[i]) = measurement.type})
  IN anti_commuting_qubits % 2 = 0

\* Stabilizer.commutes_with: measurement = [qubits |-> <<..>>, type |-> ..]
commutes_with(stab, measurement) ==
  LET anti_commuting_qubits ==
        Cardinality({i \in 1..Len(measurement.qubits) :
                       /\ OpAt(stab, measurement.qubits[i]) # "I"
                       /\ OpAt(stab, measurement.qubits[i]) # measurement.type})
  IN anti_commuting_qubits % 2 = 0

\* a slip in the collision branch: self's symbol is kept where the symbols differ
multiply_keep_self(self, other) ==
  LET both == DOMAIN self \cap DOMAIN other
      keep == (DOMAIN self \cup DOMAIN other) \ {q \in both : self[q] = other[q]}
  IN [q \in keep |-> IF q \in DOMAIN self THEN self[q] ELSE other[q]]

\* a slip in the collision branch: equal symbols are not cancelled
multiply_no_cancel(self, other) ==
  LET both == DOMAIN self \cap DOMAIN other
  IN [q \in DOMAIN self \cup DOMAIN other |->
        IF q \in both THEN (IF self[q] = other[q] THEN self[q] ELSE "Y")
        ELSE IF q \in DOMAIN self THEN self[q]
        ELSE other[q]]

\* Stabilizer.multiply
multiply(self, other) ==
  LET both == DOMAIN self \cap DOMAIN other
      keep == (DOMAIN self \cup DOMAIN other) \ {q \in both : self[q] = other[q]}
  IN [q \in keep |-> IF q \in both THEN "Y"
                     ELSE IF q \in DOMAIN self THEN self[q]
                     ELSE other[q]]

\* Stabilizer.is_trivial
is_trivial(stab) == DOMAIN stab = {}

\* list(stab.qubits_ops.values())[0]: the symbol of a single-symbol term
\* (every generator the machine holds is all-X or all-Z)
first_value(stab) == stab[CHOOSE q \in DOMAIN stab : \A p \in DOMAIN stab : q <= p]

(***************************************************************************)
(* BaconShorCode: the lattice                                              *)
(***************************************************************************)
num_qubits == (rows + 1) * (cols + 1)

\* self.grid = np.arange(1, num_qubits + 1).reshape((rows + 1, cols + 1))
grid == [i \in 0..rows |-> [j \in 0..cols |-> i * (cols + 1) + j + 1]]

\* np.argwhere(self.grid == q): the positions holding q
argwhere(q) == {<<i, j>> \in (0..rows) \X (0..cols) : grid[i][j] = q}

\* BaconShorCode.get_qubit_position (for a qubit of the grid)
get_qubit_position(q) == CHOOSE pos \in argwhere(q) : TRUE

Abs(n) == IF n < 0 THEN -n ELSE n

\* a slip in the adjacency test: distance at most 1, so (q, q) passes
is_valid_measurement_lax(qubit_pair) ==
  LET pos1 == argwhere(qubit_pair[1])
      pos2 == argwhere(qubit_pair[2])
  IN IF pos1 = {} \/ pos2 = {}
     THEN <<FALSE, MsgNotExist>>
     ELSE LET p1 == CHOOSE p \in pos1 : TRUE
              p2 == CHOOSE p \in pos2 : TRUE
              row_diff == Abs(p1[1] - p2[1])
              col_diff == Abs(p1[2] - p2[2])
          IN IF row_diff + col_diff <= 1
             THEN <<TRUE, NoMsg>>
             ELSE <<FALSE, MsgNotAdjacent>>

\* BaconShorCode.is_valid_measurement: <<valid, msg>>
is_valid_measurement(qubit_pair) ==
  LET pos1 == argwhere(qubit_pair[1])
      pos2 == argwhere(qubit_pair[2])
  IN IF pos1 = {} \/ pos2 = {}
     THEN <<FALSE, MsgNotExist>>
     ELSE LET p1 == CHOOSE p \in pos1 : TRUE
              p2 == CHOOSE p \in pos2 : TRUE
              row_diff == Abs(p1[1] - p2[1])
              col_diff == Abs(p1[2] - p2[2])
          IN IF (row_diff = 1 /\ col_diff = 0) \/ (row_diff = 0 /\ col_diff = 1)
             THEN <<TRUE, NoMsg>>
             ELSE <<FALSE, MsgNotAdjacent>>

\* a slip: the vertical and horizontal conventions exchanged
get_measurement_type_swapped(qubit_pair) ==
  LET pos1 == get_qubit_position(qubit_pair[1])
      pos2 == get_qubit_position(qubit_pair[2])
  IN IF Abs(pos1[1] - pos2[1]) = 1 /\ pos1[2] = pos2[2] THEN "Z"
     ELSE IF Abs(pos1[2] - pos2[2]) = 1 /\ pos1[1] = pos2[1] THEN "X"
     ELSE "None"

\* a slip: the same-column test of the vertical branch left out
get_measurement_type_rows_only(qubit_pair) ==
  LET pos1 == get_qubit_position(qubit_pair[1])
      pos2 == get_qubit_position(qubit_pair[2])
  IN IF Abs(pos1[1] - pos2[1]) = 1 THEN "X"
     ELSE IF Abs(pos1[2] - pos2[2]) = 1 /\ pos1[1] = pos2[1] THEN "Z"
     ELSE "None"

\* BaconShorCode.get_measurement_type (for a pair of qubits of the grid)
get_measurement_type(qubit_pair) ==
  LET pos1 == get_qubit_position(qubit_pair[1])
      pos2 == get_qubit_position(qubit_pair[2])
  IN IF Abs(pos1[1] - pos2[1]) = 1 /\ pos1[2] = pos2[2] THEN "X"
     ELSE IF Abs(pos1[2] - pos2[2]) = 1 /\ pos1[1] = pos2[1] THEN "Z"
     ELSE "None"

(***************************************************************************)
(* BaconShorCode.simplify_stabilizers                                      *)
(***************************************************************************)
\* len(s.qubits_ops), the sort key
weight(stab) == Cardinality(DOMAIN stab)

RECURSIVE reduce_stab_support(_, _)
\* a slip: the subset test compares the qubits, not the (qubit, symbol) items
reduce_stab_support(stab, todo) ==
  LET subs == {simple_stab \in todo : DOMAIN simple_stab \subseteq DOMAIN stab}
  IN IF subs = {} THEN {stab}
     ELSE UNION {reduce_stab_support(multiply(stab, simple_stab), todo \ {simple_stab})
                   : simple_stab \in subs}

RECURSIVE reduce_stab(_, _)
\* The inner loop "for simple_stab in simplified_stabilizers": the values stab
\* can have after it, over the orders in which the set is iterated.  A
\* simple_stab that is no subset of stab leaves it alone and cannot become a
\* subset later, so only the subsets among the members not yet visited count.
reduce_stab(stab, todo) ==
  LET subs == {simple_stab \in todo : Items(simple_stab) \subseteq Items(stab)}
  IN IF subs = {} THEN {stab}
     ELSE UNION {reduce_stab(multiply(stab, simple_stab), todo \ {simple_stab})
                   : simple_stab \in subs}

\* a slip: a generator that was reduced is not added to the simplified set
simplify_next_drop(c) ==
  LET least == {stab \in c.rest : \A o \in c.rest : weight(stab) <= weight(o)}
  IN UNION {{[rest |-> c.rest \ {stab},
              simplified |-> IF r # stab THEN c.simplified
                             ELSE c.simplified \cup {r}]
               : r \in reduce_stab(stab, c.simplified)} : stab \in least}

\* One iteration of "for stab in sorted_stabilizers" from a configuration
\* [rest |-> not yet visited, simplified |-> simplified_stabilizers]: sorted()
\* is stable over the set's iteration order, so any generator of least weight
\* may come next.
simplify_next(c) ==
  LET least == {stab \in c.rest : \A o \in c.rest : weight(stab) <= weight(o)}
  IN UNION {{[rest |-> c.rest \ {stab},
              simplified |-> IF is_trivial(r) THEN c.simplified
                             ELSE c.simplified \cup {r}]
               : r \in reduce_stab(stab, c.simplified)} : stab \in least}

RECURSIVE simplify_run(_)
simplify_run(cs) ==
  IF \A c \in cs : c.rest = {} THEN {c.simplified : c \in cs}
  ELSE simplify_run(UNION {simplify_next(c) : c \in cs})

\* the values self.stabilizer_generators can have after simplify_stabilizers()
simplify_stabilizers(G) == simplify_run({[rest |-> G, simplified |-> {}]})

(***************************************************************************)
(* BaconShorCode.adjust_stabilizers                                        *)
(***************************************************************************)
\* a combined operator may cover at most this many columns (Z) or rows (X)
SpanLimit == 2

Range(seq) == {seq[i] : i \in 1..Len(seq)}

RECURSIVE SortedSeq(_)
SortedSeq(S) ==
  IF S = {} THEN <<>>
  ELSE LET m == CHOOSE x \in S : \A y \in S : x <= y
       IN <<m>> \o SortedSeq(S \ {m})

RECURSIVE Perms(_)
\* the lists a comprehension over the set S can build
Perms(S) ==
  IF S = {} THEN {<<>>}
  ELSE UNION {{<<x>> \o p : p \in Perms(S \ {x})} : x \in S}

\* list.remove(x): drops the first occurrence
RemoveFirst(seq, x) ==
  LET i == CHOOSE k \in 1..Len(seq) : seq[k] = x /\ \A l \in 1..(k - 1) : seq[l] # x
  IN SubSeq(seq, 1, i - 1) \o SubSeq(seq, i + 1, Len(seq))

\* {'qubits': list(meas_stab.qubits_ops.keys()), 'type': list(meas_stab.qubits_ops.values())[0]}
measurement_of(meas_stab) ==
  [qubits |-> SortedSeq(DOMAIN meas_stab), type |-> first_value(meas_stab)]

\* a slip: terms of one type are combined whatever lines they cover
can_combine_any_span(stab1, stab2) == first_value(stab1) = first_value(stab2)

\* the test under which stab1 and stab2 of the list are combined
can_combine(stab1, stab2) ==
  LET stab_type == first_value(stab1)
      cols1 == {get_qubit_position(q)[2] : q \in DOMAIN stab1}
      cols2 == {get_qubit_position(q)[2] : q \in DOMAIN stab2}
      rows1 == {get_qubit_position(q)[1] : q \in DOMAIN stab1}
      rows2 == {get_qubit_position(q)[1] : q \in DOMAIN stab2}
  IN /\ stab_type = first_value(stab2)
     /\ \/ stab_type = "Z" /\ Cardinality(cols1 \cup cols2) <= SpanLimit
        \/ stab_type = "X" /\ Cardinality(rows1 \cup rows2) <= SpanLimit

RECURSIVE resolve_no_discard(_, _, _)
\* a slip: the terms left in the list after the last scan are not discarded
resolve_no_discard(G, anti_commuting_stabs, measurement) ==
  LET n == Len(anti_commuting_stabs)
      pairs == {ij \in (1..n) \X (1..n) :
                  /\ ij[1] < ij[2]
                  /\ can_combine(anti_commuting_stabs[ij[1]], anti_commuting_stabs[ij[2]])}
  IN IF pairs = {} THEN G
     ELSE LET ij == CHOOSE p \in pairs : \A o \in pairs :
                       p[1] < o[1] \/ (p[1] = o[1] /\ p[2] <= o[2])
              stab1 == anti_commuting_stabs[ij[1]]
              stab2 == anti_commuting_stabs[ij[2]]
              combined_stab == multiply(stab1, stab2)
              removed == RemoveFirst(RemoveFirst(anti_commuting_stabs, stab1), stab2)
              G1 == G \ {stab1, stab2}
          IN IF is_trivial(combined_stab) THEN resolve_no_discard(G1, removed, measurement)
             ELSE IF commutes_with(combined_stab, measurement)
                  THEN resolve_no_discard(G1 \cup {combined_stab}, removed, measurement)
                  ELSE resolve_no_discard(G1 \cup {combined_stab},
                                          Append(removed, combined_stab), measurement)

RECURSIVE resolve(_, _, _)
\* The "while changed" loop and the final discard for one measurement, from
\* generator set G and list anti_commuting_stabs: the first pair (i, j), i < j,
\* in list order that can be combined is combined and the scan restarts.
resolve(G, anti_commuting_stabs, measurement) ==
  LET n == Len(anti_commuting_stabs)
      pairs == {ij \in (1..n) \X (1..n) :
                  /\ ij[1] < ij[2]
                  /\ can_combine(anti_commuting_stabs[ij[1]], anti_commuting_stabs[ij[2]])}
  IN IF pairs = {} THEN G \ Range(anti_commuting_stabs)
     ELSE LET ij == CHOOSE p \in pairs : \A o \in pairs :
                       p[1] < o[1] \/ (p[1] = o[1] /\ p[2] <= o[2])
              stab1 == anti_commuting_stabs[ij[1]]
              stab2 == anti_commuting_stabs[ij[2]]
              combined_stab == multiply(stab1, stab2)
              removed == RemoveFirst(RemoveFirst(anti_commuting_stabs, stab1), stab2)
              G1 == G \ {stab1, stab2}
          IN IF is_trivial(combined_stab) THEN resolve(G1, removed, measurement)
             ELSE IF commutes_with(combined_stab, measurement)
                  THEN resolve(G1 \cup {combined_stab}, removed, measurement)
                  ELSE resolve(G1 \cup {combined_stab},
                               Append(removed, combined_stab), measurement)

\* a slip: the two combined terms are not removed from the working list
scan_pass_no_remove(G, anti_commuting_stabs, measurement) ==
  LET n == Len(anti_commuting_stabs)
      pairs == {ij \in (1..n) \X (1..n) :
                  /\ ij[1] < ij[2]
                  /\ can_combine(anti_commuting_stabs[ij[1]], anti_commuting_stabs[ij[2]])}
  IN IF pairs = {}
     THEN [changed |-> FALSE, G |-> G, anti |-> anti_commuting_stabs]
     ELSE LET ij == CHOOSE p \in pairs : \A o \in pairs :
                       p[1] < o[1] \/ (p[1] = o[1] /\ p[2] <= o[2])
              stab1 == anti_commuting_stabs[ij[1]]
              stab2 == anti_commuting_stabs[ij[2]]
              combined_stab == multiply(stab1, stab2)
              G1 == G \ {stab1, stab2}
          IN IF is_trivial(combined_stab)
             THEN [changed |-> TRUE, G |-> G1, anti |-> anti_commuting_stabs]
             ELSE IF commutes_with(combined_stab, measurement)
                  THEN [changed |-> TRUE, G |-> G1 \cup {combined_stab},
                        anti |-> anti_commuting_stabs]
                  ELSE [changed |-> TRUE, G |-> G1 \cup {combined_stab},
                        anti |-> Append(anti_commuting_stabs, combined_stab)]

\* One iteration of "while changed": the scan over the copy of the list, which
\* combines the first pair that can be combined and stops, or finds none.
\* The result holds changed, the generator set and the working list.
scan_pass(G, anti_commuting_stabs, measurement) ==
  LET n == Len(anti_commuting_stabs)
      pairs == {ij \in (1..n) \X (1..n) :
                  /\ ij[1] < ij[2]
                  /\ can_combine(anti_commuting_stabs[ij[1]], anti_commuting_stabs[ij[2]])}
  IN IF pairs = {}
     THEN [changed |-> FALSE, G |-> G, anti |-> anti_commuting_stabs]
     ELSE LET ij == CHOOSE p \in pairs : \A o \in pairs :
                       p[1] < o[1] \/ (p[1] = o[1] /\ p[2] <= o[2])
              stab1 == anti_commuting_stabs[ij[1]]
              stab2 == anti_commuting_stabs[ij[2]]
              combined_stab == multiply(stab1, stab2)
              removed == RemoveFirst(RemoveFirst(anti_commuting_stabs, stab1), stab2)
              G1 == G \ {stab1, stab2}
          IN IF is_trivial(combined_stab)
             THEN [changed |-> TRUE, G |-> G1, anti |-> removed]
             ELSE IF commutes_with(combined_stab, measurement)
                  THEN [changed |-> TRUE, G |-> G1 \cup {combined_stab}, anti |-> removed]
                  ELSE [changed |-> TRUE, G |-> G1 \cup {combined_stab},
                        anti |-> Append(removed, combined_stab)]

\* the body of "for meas_stab in measurement_stabilizers" for one meas_stab
adjust_one(G, meas_stab) ==
  LET measurement == measurement_of(meas_stab)
      anti == {stab \in G : ~commutes_with(stab, measurement) /\ stab # meas_stab}
  IN {resolve(G, A, measurement) : A \in Perms(anti)}

RECURSIVE adjust_from(_, _, _)
adjust_from(Gs, measurement_stabilizers, i) ==
  IF i > Len(measurement_stabilizers) THEN Gs
  ELSE adjust_from(UNION {adjust_one(G, measurement_stabilizers[i]) : G \in Gs},
                   measurement_stabilizers, i + 1)

\* the values self.stabilizer_generators can have after adjust_stabilizers
adjust_stabilizers(G, measurement_stabilizers) ==
  adjust_from({G}, measurement_stabilizers, 1)

(***************************************************************************)
(* BaconShorCode.update_stabilizers and run_time_step                      *)
(***************************************************************************)
\* Stabilizer({q: meas_type for q in meas})
meas_stab_of(meas) == [q \in {meas[1], meas[2]} |-> get_measurement_type(meas)]

\* a slip: the set is initialised while it is empty, not at time step 1
update_stabilizers_while_empty(G, measurements, step) ==
  LET measurement_stabilizers ==
        [i \in 1..Len(measurements) |-> meas_stab_of(measurements[i])]
      new_stabilizers == Range(measurement_stabilizers)
  IN IF G = {} THEN {new_stabilizers}
     ELSE UNION {simplify_stabilizers(A)
                   : A \in adjust_stabilizers(G \cup new_stabilizers,
                                              measurement_stabilizers)}

\* a slip: the new terms are not added to the set before the adjustment
update_stabilizers_no_union(G, measurements, step) ==
  LET measurement_stabilizers ==
        [i \in 1..Len(measurements) |-> meas_stab_of(measurements[i])]
      new_stabilizers == Range(measurement_stabilizers)
  IN IF step = 1 THEN {new_stabilizers}
     ELSE UNION {simplify_stabilizers(A)
                   : A \in adjust_stabilizers(G, measurement_stabilizers)}

\* the values self.stabilizer_generators can have after update_stabilizers,
\* called with self.time_step = step
update_stabilizers(G, measurements, step) ==
  LET measurement_stabilizers ==
        [i \in 1..Len(measurements) |-> meas_stab_of(measurements[i])]
      new_stabilizers == Range(measurement_stabilizers)
  IN IF step = 1 THEN {new_stabilizers}
     ELSE UNION {simplify_stabilizers(A)
                   : A \in adjust_stabilizers(G \cup new_stabilizers,
                                              measurement_stabilizers)}

\* the pairs of the batch that pass is_valid_measurement, in order
valid_of(measurements) ==
  SelectSeq(measurements, LAMBDA qubit_pair : is_valid_measurement(qubit_pair)[1])

\* the "Invalid measurement" lines printed for the batch, in order
invalid_of(measurements) ==
  LET bad == SelectSeq(measurements, LAMBDA qubit_pair : ~is_valid_measurement(qubit_pair)[1])
  IN [i \in 1..Len(bad) |-> [pair |-> bad[i], msg |-> is_valid_measurement(bad[i])[2]]]

\* a common slip: only the batches that accepted a pair are recorded
history_append_nonempty(history, valid_measurements) ==
  IF valid_measurements = <<>> THEN history ELSE Append(history, valid_measurements)

\* self.measurements_history.append(valid_measurements)
history_append(history, valid_measurements) == Append(history, valid_measurements)

\* BaconShorCode.run_time_step(measurements)
run_time_step(measurements) ==
  LET valid_measurements == valid_of(measurements)
  IN /\ time_step' = time_step + 1
     /\ printed' = invalid_of(measurements)
     /\ stabilizer_generators' \in
          update_stabilizers(stabilizer_generators, valid_measurements, time_step + 1)
     /\ current_measurements' = valid_measurements
     /\ measurements_history' = history_append(measurements_history, valid_measurements)
     /\ selected_edges' = <<>>
     /\ arg' = measurements
     /\ submitted' = submitted + Len(measurements)
     /\ UNCHANGED <<rows, cols, ret>>

(***************************************************************************)
(* A direct caller: BaconShorCode(rows, cols), then run_time_step calls    *)
(***************************************************************************)
\* the qubit ids a caller may name: the grid's, one below and one above
InputIds == 0..(num_qubits + 1)
InputPairs == InputIds \X InputIds

Batches(P, n) == UNION {[1..k -> P] : k \in 0..n}

\* BaconShorCode.__init__
Constructed(r, c) ==
  /\ rows = r
  /\ cols = c
  /\ stabilizer_generators = {}
  /\ time_step = 0
  /\ prev_measurements = <<>>
  /\ current_measurements = <<>>
  /\ measurements_history = <<>>
  /\ selected_edges = <<>>
  /\ printed = <<>>

\* no call has been made yet
NoCall == [fn |-> "none", value |-> "none"]

Idle == arg = <<>> /\ ret = NoCall /\ submitted = 0

Init == Constructed(1, 1) /\ Idle

RunTimeStep ==
  /\ time_step < MaxSteps
  /\ \E measurements \in Batches(InputPairs, MaxPairs - submitted) :
       run_time_step(measurements)
  /\ UNCHANGED prev_measurements

Next == RunTimeStep

Spec == Init /\ [][Next]_vars

(***************************************************************************)
(* The interactive program: code = BaconShorCode(..); while True:          *)
(* code.start_interactive_session()                                        *)
(***************************************************************************)
\* the lattices (rows, cols) the interactive program is run on
SessionLattices == {<<1, 1>>, <<1, 2>>, <<2, 1>>}

\* the edges on_click can find closest to a click, as it builds them
GridEdges ==
  {<<grid[i][j], grid[i][j + 1]>> : <<i, j>> \in (0..rows) \X (0..(cols - 1))}
    \cup {<<grid[i][j], grid[i + 1][j]>> : <<i, j>> \in (0..(rows - 1)) \X (0..cols)}

\* BaconShorCode.normalize_edge
normalize_edge(edge) == IF edge[1] <= edge[2] THEN edge ELSE <<edge[2], edge[1]>>

\* the program up to the first plt.show() of a session
InitSession ==
  /\ \E l \in SessionLattices : Constructed(l[1], l[2])
  /\ Idle

\* BaconShorCode.on_click, for a click inside the axes
OnClick ==
  \E closest_edge \in GridEdges :
    LET norm_edge == normalize_edge(closest_edge)
    IN /\ IF norm_edge \in Range(selected_edges)
          THEN selected_edges' = RemoveFirst(selected_edges, norm_edge)
          ELSE /\ submitted + Len(selected_edges) < SessionPairs
               /\ selected_edges' = Append(selected_edges, norm_edge)
       /\ UNCHANGED <<rows, cols, stabilizer_generators, time_step,
                      prev_measurements, current_measurements,
                      measurements_history, printed, arg, ret, submitted>>

\* The window is closed: the rest of start_interactive_session, which runs the
\* time step on the selected edges (which clears them), and the next session up
\* to its plt.show() (prev_measurements = current_measurements.copy()).
CloseWindow ==
  /\ time_step < SessionSteps
  /\ run_time_step(selected_edges)
  /\ prev_measurements' = current_measurements'

NextSession == OnClick \/ CloseWindow

SpecSession == InitSession /\ [][NextSession]_vars

(***************************************************************************)
(* The example program on the 5x5-vertex lattice                           *)
(***************************************************************************)
\* measurements_t1 and measurements_t2 of the example usage, the four vertical
\* pairs of measurements_t2 alone, and batches holding pairs that are no edge
measurements_t1 == <<<<1, 2>>, <<3, 4>>, <<6, 7>>, <<8, 9>>>>
measurements_t2 == <<<<1, 6>>, <<2, 7>>, <<3, 8>>, <<4, 9>>, <<11, 12>>, <<13, 14>>>>
measurements_t2_vertical == SubSeq(measurements_t2, 1, 4)

ExampleBatches ==
  {measurements_t1, measurements_t2, measurements_t2_vertical,
   <<<<1, 3>>>>, <<<<1, 999>>>>, <<<<5, 6>>, <<1, 2>>>>}

InitExample == Constructed(ExampleSize - 1, ExampleSize - 1) /\ Idle

RunExample ==
  /\ time_step < ScenarioSteps
  /\ \E measurements \in ExampleBatches : run_time_step(measurements)
  /\ UNCHANGED prev_measurements

SpecScenario == InitExample /\ [][RunExample]_vars

(***************************************************************************)
(* A re-grouping schedule on the 4x2-vertex lattice (qubits 1 2 / 3 4 /    *)
(* 5 6 / 7 8): the four horizontal pairs, the vertical pairs (1,3) and     *)
(* (5,7) that merge them two by two, and the vertical pair (3,5) submitted *)
(* together with horizontal pairs measured again.                          *)
(***************************************************************************)
row_pairs == <<<<1, 2>>, <<3, 4>>, <<5, 6>>, <<7, 8>>>>
column_pairs == <<<<1, 3>>, <<5, 7>>>>
regroup_pairs == <<<<3, 5>>, <<3, 4>>, <<5, 6>>, <<7, 8>>>>

ScheduleBatches ==
  {row_pairs, column_pairs, regroup_pairs, <<<<3, 5>>>>, <<<<7, 8>>>>, <<>>}

InitSchedule == Constructed(3, 1) /\ Idle

RunSchedule ==
  /\ time_step < ScheduleSteps
  /\ \E measurements \in ScheduleBatches : run_time_step(measurements)
  /\ UNCHANGED prev_measurements

SpecSchedule == InitSchedule /\ [][RunSchedule]_vars

(***************************************************************************)
(* The Stabilizer methods applied to drawn terms                           *)
(***************************************************************************)
AlgTerms == TermsOver(1..AlgQubits, Symbols)

\* measurement dicts: a list of distinct qubits and a type
AlgMeasurements ==
  [qubits : UNION {Perms(Q) : Q \in SUBSET (1..AlgQubits) \ {{}}}, type : {"X", "Z"}]

InitAlgebra ==
  /\ Constructed(1, 1)
  /\ arg \in [s : AlgTerms, t : AlgTerms, measurement : AlgMeasurements]
  /\ ret = NoCall
  /\ submitted = 0

Unused == <<rows, cols, stabilizer_generators, time_step, prev_measurements,
            current_measurements, measurements_history, selected_edges, printed,
            submitted>>

\* arg.s.multiply(arg.t)
CallMultiply ==
  /\ ret' = [fn |-> "multiply", value |-> multiply(arg.s, arg.t)]
  /\ UNCHANGED <<Unused, arg>>

\* arg.s.commutes_with(arg.measurement)
CallCommutesWith ==
  /\ ret' = [fn |-> "commutes_with", value |-> commutes_with(arg.s, arg.measurement)]
  /\ UNCHANGED <<Unused, arg>>

NextAlgebra == CallMultiply \/ CallCommutesWith

SpecAlgebra == InitAlgebra /\ [][NextAlgebra]_vars

(***************************************************************************)
(* simplify_stabilizers applied to drawn generator sets                    *)
(***************************************************************************)
SimpTerms == {stab \in TermsOver(1..SimpQubits, {"X", "Z"}) : ~is_trivial(stab)}

InitSimplify ==
  /\ rows = 1 /\ cols = 1
  /\ stabilizer_generators \in {G \in SUBSET SimpTerms : Cardinality(G) <= SimpGens}
  /\ time_step = 0
  /\ prev_measurements = <<>>
  /\ current_measurements = <<>>
  /\ measurements_history = <<>>
  /\ selected_edges = <<>>
  /\ printed = <<>>
  /\ arg = stabilizer_generators
  /\ ret = [calls |-> 0, before |-> {}]
  /\ submitted = 0

\* self.simplify_stabilizers(), at most twice
CallSimplify ==
  /\ ret.calls < 2
  /\ stabilizer_generators' \in simplify_stabilizers(stabilizer_generators)
  /\ ret' = [calls |-> ret.calls + 1, before |-> stabilizer_generators]
  /\ UNCHANGED <<rows, cols, time_step, prev_measurements, current_measurements,
                 measurements_history, selected_edges, printed, arg, submitted>>

SpecSimplify == InitSimplify /\ [][CallSimplify]_vars

(***************************************************************************)
(* The resolution loop of adjust_stabilizers for one meas_stab, pass by    *)
(* pass, on the 2x3-vertex lattice (qubits 1 2 3 / 4 5 6), from drawn      *)
(* sets of edge terms, with meas_stab already in the set as                *)
(* update_stabilizers leaves it.                                           *)
(***************************************************************************)
EdgeTerms == {meas_stab_of(e) : e \in GridEdges}

InitResolve ==
  /\ rows = 1 /\ cols = 2
  /\ arg \in EdgeTerms
  /\ \E G \in {S \in SUBSET EdgeTerms : Cardinality(S) <= ResolveGens} :
       stabilizer_generators = G \cup {arg}
  /\ ret = [pc |-> "list", anti |-> <<>>, before |-> stabilizer_generators]
  /\ time_step = 0
  /\ prev_measurements = <<>>
  /\ current_measurements = <<>>
  /\ measurements_history = <<>>
  /\ selected_edges = <<>>
  /\ printed = <<>>
  /\ submitted = 0

ResolveFixed == <<rows, cols, time_step, prev_measurements, current_measurements,
                  measurements_history, selected_edges, printed, arg, submitted>>

\* anti_commuting_stabs = [stab for stab in self.stabilizer_generators if ...]
ListAntiCommuting ==
  /\ ret.pc = "list"
  /\ \E A \in Perms({stab \in stabilizer_generators :
                        ~commutes_with(stab, measurement_of(arg)) /\ stab # arg}) :
       ret' = [ret EXCEPT !.pc = "scan", !.anti = A]
  /\ UNCHANGED <<ResolveFixed, stabilizer_generators>>

\* one iteration of "while changed"
ScanPass ==
  /\ ret.pc = "scan"
  /\ LET r == scan_pass(stabilizer_generators, ret.anti, measurement_of(arg))
     IN /\ stabilizer_generators' = r.G
        /\ ret' = [ret EXCEPT !.pc = IF r.changed THEN "scan" ELSE "discard",
                              !.anti = r.anti]
  /\ UNCHANGED ResolveFixed

\* for stab in anti_commuting_stabs: self.stabilizer_generators.discard(stab)
DiscardRest ==
  /\ ret.pc = "discard"
  /\ stabilizer_generators' = stabilizer_generators \ Range(ret.anti)
  /\ ret' = [ret EXCEPT !.pc = "done"]
  /\ UNCHANGED ResolveFixed

NextResolve == ListAntiCommuting \/ ScanPass \/ DiscardRest

\* the loop runs in one thread with nothing to wait for: a pass that can be
\* taken is taken
SpecResolve == InitResolve /\ [][NextResolve]_vars /\ WF_vars(NextResolve)

(***************************************************************************)
(* The lattice geometry applied to drawn pairs                             *)
(***************************************************************************)
InitLattice ==
  /\ \E r \in 1..MaxRows, c \in 1..MaxCols : Constructed(r, c)
  /\ arg \in InputPairs
  /\ ret = NoCall
  /\ submitted = 0

\* self.is_valid_measurement(arg)
CallIsValidMeasurement ==
  /\ ret' = [fn |-> "is_valid_measurement", value |-> is_valid_measurement(arg)]
  /\ UNCHANGED <<Unused, arg>>

\* self.get_measurement_type(arg); np.argwhere(..)[0] raises IndexError for a
\* qubit that is not in the grid
CallGetMeasurementType ==
  /\ ret' = [fn |-> "get_measurement_type",
             value |-> IF argwhere(arg[1]) = {} \/ argwhere(arg[2]) = {}
                       THEN "IndexError" ELSE get_measurement_type(arg)]
  /\ UNCHANGED <<Unused, arg>>

NextLattice == CallIsValidMeasurement \/ CallGetMeasurementType

SpecLattice == InitLattice /\ [][NextLattice]_vars

(***************************************************************************)
(* What the specification says of the lattice, stated on the row-major     *)
(* numbering itself: qubit q sits at row (q-1) div width, column           *)
(* (q-1) mod width, width = cols + 1.                                      *)
(***************************************************************************)
InRange(q) == q \in 1..num_qubits
RowOf(q) == (q - 1) \div (cols + 1)
ColOf(q) == (q - 1) % (cols + 1)
Manhattan(a, b) == Abs(RowOf(a) - RowOf(b)) + Abs(ColOf(a) - ColOf(b))

\* the verdict on a submitted pair: accepted (NoMsg), or the reason it is rejected
Verdict(pair) ==
  IF ~InRange(pair[1]) \/ ~InRange(pair[2]) THEN MsgNotExist
  ELSE IF Manhattan(pair[1], pair[2]) # 1 THEN MsgNotAdjacent
  ELSE NoMsg

\* the type of an edge: X vertical, Z horizontal, None otherwise
EdgeType(a, b) ==
  IF ColOf(a) = ColOf(b) /\ Abs(RowOf(a) - RowOf(b)) = 1 THEN "X"
  ELSE IF RowOf(a) = RowOf(b) /\ Abs(ColOf(a) - ColOf(b)) = 1 THEN "Z"
  ELSE "None"

\* the term with symbol sym on the qubits Q
Pauli(sym, Q) == [q \in Q |-> sym]

\* the two-qubit term of an accepted pair
TermOf(pair) == Pauli(EdgeType(pair[1], pair[2]), {pair[1], pair[2]})
TermsOf(batch) == {TermOf(batch[i]) : i \in 1..Len(batch)}

Accepted(batch) == SelectSeq(batch, LAMBDA pair : Verdict(pair) = NoMsg)
Rejected(batch) == SelectSeq(batch, LAMBDA pair : Verdict(pair) # NoMsg)

\* no generator's (qubit, symbol) pairs are a strict subset of another's
Closed(G) ==
  \A g \in G, r \in G : ~(Items(r) \subseteq Items(g) /\ Items(r) # Items(g))

OnlyXZ(stab) == \A q \in DOMAIN stab : stab[q] \in {"X", "Z"}

(***************************************************************************)
(* C1: on the 5x5-vertex lattice, after step 1 with pairs (1,2),(3,4),     *)
(* (6,7),(8,9) and step 2 with pairs (1,6),(2,7),(3,8),(4,9), all          *)
(* generators of both steps survive: the set holds exactly the four Z      *)
(* pairs of step 1 and the four X pairs of step 2.                         *)
(***************************************************************************)
C1_scenario_done ==
  measurements_history = <<measurements_t1, measurements_t2_vertical>>

C1_all_eight_survive ==
  C1_scenario_done =>
    /\ Cardinality(stabilizer_generators) = 8
    /\ stabilizer_generators =
         {Pauli("Z", {1, 2}), Pauli("Z", {3, 4}), Pauli("Z", {6, 7}), Pauli("Z", {8, 9}),
          Pauli("X", {1, 6}), Pauli("X", {2, 7}), Pauli("X", {3, 8}), Pauli("X", {4, 9})}

\* C1 as amended: each X pair of step 2 anti-commutes with two Z pairs of step
\* 1, which are merged into their product; the set after step 2 holds exactly
\* 6 generators, Z on {1,2,6,7}, Z on {3,4,8,9} and the four X pairs.
C1_six_generators ==
  C1_scenario_done =>
    /\ Cardinality(stabilizer_generators) = 6
    /\ stabilizer_generators =
         {Pauli("Z", {1, 2, 6, 7}), Pauli("Z", {3, 4, 8, 9}),
          Pauli("X", {1, 6}), Pauli("X", {2, 7}), Pauli("X", {3, 8}), Pauli("X", {4, 9})}

C1_witness == C1_scenario_done /\ time_step = 2

(***************************************************************************)
(* C2: simplify is idempotent: for every set of non-trivial terms and      *)
(* every visiting order, a second simplify_stabilizers() leaves the set    *)
(* the first one produced.                                                 *)
(***************************************************************************)
C2_simplify_idempotent ==
  ret.calls = 2 => stabilizer_generators = ret.before

(***************************************************************************)
(* C3: after every completed time step the generator set has no two        *)
(* distinct generators g, r with r's (qubit, symbol) pairs a strict subset *)
(* of g's.                                                                 *)
(***************************************************************************)
C3_closed_after_step == Closed(stabilizer_generators)

(***************************************************************************)
(* C4: closure of the commutant: for any terms s, t over {X,Y,Z} and any   *)
(* measurement (Q, type), if s and t both commute with it, so does         *)
(* s.multiply(t).                                                          *)
(***************************************************************************)
C4_case ==
  /\ ret.fn = "multiply"
  /\ commutes_with(arg.s, arg.measurement)
  /\ commutes_with(arg.t, arg.measurement)

C4_commutant_closed_XYZ ==
  C4_case => commutes_with(ret.value, arg.measurement)

\* C4 as amended: the same for terms s, t over {X,Z}, the symbols the
\* measurement terms and their products within one type are made of.
C4_commutant_closed_XZ ==
  (C4_case /\ OnlyXZ(arg.s) /\ OnlyXZ(arg.t)) =>
    commutes_with(ret.value, arg.measurement)

\* s and t collide with different symbols, so the product carries a Y
C4_witness ==
  /\ C4_case /\ OnlyXZ(arg.s) /\ OnlyXZ(arg.t)
  /\ \E q \in DOMAIN ret.value : ret.value[q] = "Y"

(***************************************************************************)
(* C5: multiply is commutative and its own inverse: s.multiply(t) equals   *)
(* t.multiply(s) as a mapping, and s.multiply(s) is trivial.               *)
(***************************************************************************)
C5_multiply_commutative_involutive ==
  ret.fn = "multiply" =>
    /\ ret.value = multiply(arg.t, arg.s)
    /\ arg.s = arg.t => is_trivial(ret.value)
    /\ is_trivial(multiply(ret.value, ret.value))

\* the operands share a qubit with equal symbols and one with different symbols
C5_witness ==
  /\ ret.fn = "multiply"
  /\ \E q \in DOMAIN arg.s \cap DOMAIN arg.t : arg.s[q] = arg.t[q]
  /\ \E q \in DOMAIN arg.s \cap DOMAIN arg.t : arg.s[q] # arg.t[q]

(***************************************************************************)
(* C6: the first submit call that accepts at least one pair is the one     *)
(* handled by bootstrap (the set becomes exactly its terms); a first call  *)
(* whose pairs are all rejected does not consume the bootstrap.            *)
(***************************************************************************)
C6_first_accepting_call ==
  /\ time_step >= 1
  /\ measurements_history[time_step] # <<>>
  /\ \A k \in 1..(time_step - 1) : measurements_history[k] = <<>>

C6_bootstrap_on_first_accepting_call ==
  C6_first_accepting_call =>
    stabilizer_generators = TermsOf(measurements_history[time_step])

\* C6 as amended: the first submit call is handled by bootstrap whether or not
\* it accepts a pair, and every later call by incorporate (union, resolution,
\* simplify), also when no earlier call accepted a pair.
C6_bootstrap_on_first_call ==
  [][LET batch == current_measurements'
         terms == [i \in 1..Len(batch) |-> TermOf(batch[i])]
     IN IF time_step' = 1
        THEN stabilizer_generators' = Range(terms)
        ELSE stabilizer_generators' \in
               UNION {simplify_stabilizers(A)
                        : A \in adjust_stabilizers(stabilizer_generators \cup Range(terms),
                                                   terms)}]_vars

\* the second call is the first to accept a pair, and is not a bootstrap
C6_witness ==
  /\ time_step = 2
  /\ C6_first_accepting_call
  /\ stabilizer_generators # TermsOf(measurements_history[2])

(***************************************************************************)
(* C7: after the first time step on a non-empty batch of distinct adjacent *)
(* pairs that share no qubit, the generator set is exactly the set of the  *)
(* batch's two-qubit terms, one per accepted pair.                         *)
(***************************************************************************)
NonOverlapping(batch) ==
  \A i \in 1..Len(batch), j \in 1..Len(batch) :
    i # j => {batch[i][1], batch[i][2]} \cap {batch[j][1], batch[j][2]} = {}

C7_case ==
  /\ time_step = 1
  /\ current_measurements # <<>>
  /\ NonOverlapping(current_measurements)

C7_bootstrap_is_batch ==
  C7_case =>
    /\ stabilizer_generators = TermsOf(current_measurements)
    /\ Cardinality(stabilizer_generators) = Len(current_measurements)
    /\ \A g \in stabilizer_generators : weight(g) = 2

C7_witness == C7_case /\ Len(current_measurements) = 2

(***************************************************************************)
(* C8: a submitted pair is rejected as out of range if either id is        *)
(* outside 1..(rows+1)(cols+1) (checked first), rejected as not adjacent   *)
(* if both ids are valid and their Manhattan distance is not 1, accepted   *)
(* otherwise; a rejected pair does not abort the step, the other pairs are *)
(* accepted in order, and no term is built from a rejected pair.           *)
(***************************************************************************)
AcceptedQubits ==
  UNION {UNION {{measurements_history[k][i][1], measurements_history[k][i][2]}
                  : i \in 1..Len(measurements_history[k])}
           : k \in 1..Len(measurements_history)}

C8_validation ==
  time_step >= 1 =>
    /\ current_measurements = Accepted(arg)
    /\ printed = [i \in 1..Len(Rejected(arg)) |->
                    [pair |-> Rejected(arg)[i], msg |-> Verdict(Rejected(arg)[i])]]
    /\ time_step = 1 => stabilizer_generators = TermsOf(Accepted(arg))
    /\ \A g \in stabilizer_generators : DOMAIN g \subseteq AcceptedQubits

\* a batch whose first pair is rejected and whose second pair is accepted
C8_witness ==
  /\ time_step = 1
  /\ Len(arg) = 2
  /\ Verdict(arg[1]) = MsgNotAdjacent
  /\ current_measurements = <<arg[2]>>
  /\ stabilizer_generators = {TermOf(arg[2])}

(***************************************************************************)
(* C9: for valid qubit ids a, b the type of (a, b) equals the type of      *)
(* (b, a); it is X exactly for same column and rows differing by 1, Z      *)
(* exactly for same row and columns differing by 1, None otherwise, so it  *)
(* is never None for an adjacent pair.                                     *)
(***************************************************************************)
C9_case ==
  /\ ret.fn = "get_measurement_type"
  /\ InRange(arg[1]) /\ InRange(arg[2])

C9_edge_type ==
  C9_case =>
    /\ ret.value = EdgeType(arg[1], arg[2])
    /\ ret.value = get_measurement_type(<<arg[2], arg[1]>>)
    /\ is_valid_measurement(arg)[1] => ret.value # "None"
    /\ Manhattan(arg[1], arg[2]) = 1 <=> ret.value # "None"

\* a vertical edge named bottom-up on a lattice three or more vertices wide
C9_witness ==
  /\ C9_case
  /\ cols >= 2
  /\ arg[1] > arg[2]
  /\ ret.value = "X"

(***************************************************************************)
(* C10: every submit call appends exactly one entry, the accepted pairs of *)
(* that call in submission order, to the history and advances the step     *)
(* counter by one; earlier entries are never changed or removed; the       *)
(* history length always equals the step counter.                          *)
(***************************************************************************)
C10_history_append_only ==
  /\ [](Len(measurements_history) = time_step)
  /\ [][/\ time_step' = time_step + 1
        /\ measurements_history' = Append(measurements_history, Accepted(arg'))]_vars

\* a second call whose pairs were all rejected has appended an empty entry
C10_witness ==
  /\ time_step = 2
  /\ measurements_history[1] # <<>>
  /\ printed # <<>>
  /\ measurements_history[2] = <<>>

(***************************************************************************)
(* C11: when a time step after the first completes, every term built from  *)
(* a pair accepted in that step is a member of the generator set, also     *)
(* when pairs of the batch share qubits.                                   *)
(***************************************************************************)
BatchTerm(i) == TermOf(current_measurements[i])

C11_accepted_terms_kept ==
  time_step >= 2 =>
    \A i \in 1..Len(current_measurements) : BatchTerm(i) \in stabilizer_generators

\* C11 as amended: a term of the batch that commutes with every term of the
\* batch is a member of the generator set after the step; a term that
\* anti-commutes with another term of its own batch is removed with it.
CommutesWithBatch(i) ==
  \A j \in 1..Len(current_measurements) :
    commutes_with(BatchTerm(j), measurement_of(BatchTerm(i)))

C11_commuting_terms_kept ==
  time_step >= 2 =>
    \A i \in 1..Len(current_measurements) :
      CommutesWithBatch(i) => BatchTerm(i) \in stabilizer_generators

\* a step whose two pairs share a qubit and commute, and which removed a
\* generator of the first step
C11_witness ==
  /\ time_step = 2
  /\ Len(current_measurements) = 2
  /\ {current_measurements[1][1], current_measurements[1][2]}
        \cap {current_measurements[2][1], current_measurements[2][2]} # {}
  /\ CommutesWithBatch(1)
  /\ measurements_history[1] # <<>>
  /\ stabilizer_generators = TermsOf(current_measurements)

(***************************************************************************)
(* C12: when a time step after the first completes, no generator of the    *)
(* set anti-commutes with a measurement term accepted in that step.        *)
(***************************************************************************)
C12_no_anticommuting_generator ==
  time_step >= 2 =>
    \A g \in stabilizer_generators :
      \A i \in 1..Len(current_measurements) :
        commutes_with(g, measurement_of(BatchTerm(i)))

\* a step whose pair anti-commuted with the two generators of the first step,
\* which it merged into their product of weight 4
C12_witness ==
  /\ time_step = 2
  /\ Len(current_measurements) = 1
  /\ Len(measurements_history[1]) = 2
  /\ \A i \in 1..2 : ~commutes_with(TermOf(measurements_history[1][i]),
                                      measurement_of(BatchTerm(1)))
  /\ \E g \in stabilizer_generators : weight(g) = 4

(***************************************************************************)
(* C13: a time step is deterministic: the generator set before the step    *)
(* and the accepted batch determine the generator set after it, whatever   *)
(* the order in which the set is enumerated to build and scan the          *)
(* anti-commuting list and the order in which simplify visits generators   *)
(* of equal weight.                                                        *)
(***************************************************************************)
C13_step_deterministic ==
  [][\A G \in update_stabilizers(stabilizer_generators, current_measurements', time_step') :
       G = stabilizer_generators']_vars

(***************************************************************************)
(* C14: the resolution loop for one measurement term terminates for every  *)
(* generator set and measurement: each combination removes two entries     *)
(* from the working list and re-inserts at most one, so a pass without a   *)
(* combination is reached and the remaining terms are discarded.           *)
(***************************************************************************)
C14_resolution_terminates ==
  /\ [][(ret.pc = "scan" /\ ret'.pc = "scan") =>
          Len(ret'.anti) \in {Len(ret.anti) - 2, Len(ret.anti) - 1}]_vars
  /\ <>(ret.pc = "done")
  /\ [](ret.pc = "done" => stabilizer_generators \in adjust_one(ret.before, arg))

\* the loop has ended after a combination, with a term left to discard
C14_witness ==
  /\ ret.pc = "done"
  /\ ret.anti # <<>>
  /\ \E g \in stabilizer_generators : g \notin ret.before

(***************************************************************************)
(* C15: in every reachable state every generator is single-symbol, all of  *)
(* its entries X or all of them Z; Y appears in no generator.              *)
(***************************************************************************)
SingleSymbol(stab) ==
  \E sym \in {"X", "Z"} : \A q \in DOMAIN stab : stab[q] = sym

C15_single_symbol == \A g \in stabilizer_generators : SingleSymbol(g)

\* after a third step the set holds a product made by multiply next to a
\* generator of the other symbol on some of the same qubits
C15_witness ==
  /\ time_step = 3
  /\ \E g \in stabilizer_generators, h \in stabilizer_generators :
       /\ weight(g) = 4
       /\ first_value(h) # first_value(g)
       /\ DOMAIN h \subseteq DOMAIN g

(***************************************************************************)
(* C16: in every reachable state the qubits of an all-Z generator lie in   *)
(* at most 2 distinct lattice columns and the qubits of an all-X generator *)
(* in at most 2 distinct lattice rows.                                     *)
(***************************************************************************)
ColumnsOf(stab) == {ColOf(q) : q \in DOMAIN stab}
RowsOf(stab) == {RowOf(q) : q \in DOMAIN stab}

C16_span_limit ==
  \A g \in stabilizer_generators :
    /\ (\A q \in DOMAIN g : g[q] = "Z") => Cardinality(ColumnsOf(g)) <= 2
    /\ (\A q \in DOMAIN g : g[q] = "X") => Cardinality(RowsOf(g)) <= 2

\* on a lattice three qubits wide, the two Z pairs of the first step both
\* anti-commute with the X pair of the second and cover three columns
\* together: they are not combined, and are discarded
C16_witness ==
  /\ time_step = 2
  /\ Len(measurements_history[1]) = 2
  /\ Len(current_measurements) = 1
  /\ \A i \in 1..2 : ~commutes_with(TermOf(measurements_history[1][i]),
                                      measurement_of(BatchTerm(1)))
  /\ Cardinality(ColumnsOf(TermOf(measurements_history[1][1]))
                   \cup ColumnsOf(TermOf(measurements_history[1][2]))) = 3
  /\ stabilizer_generators = {BatchTerm(1)}

(***************************************************************************)
(* C17: simplify preserves the generated group: for a set G of             *)
(* single-symbol non-trivial terms, the closure of simplify(G) under       *)
(* multiply equals the closure of G under multiply.                        *)
(***************************************************************************)
RECURSIVE GroupOf(_)
GroupOf(S) ==
  LET next == S \cup {multiply(a, b) : <<a, b>> \in S \X S}
  IN IF next = S THEN S ELSE GroupOf(next)

C17_simplify_preserves_group ==
  (ret.calls >= 1 /\ \A g \in ret.before : SingleSymbol(g)) =>
    GroupOf(stabilizer_generators) = GroupOf(ret.before)

\* a set holding X and Z terms in which simplify_stabilizers reduced a term
C17_witness ==
  /\ ret.calls = 1
  /\ \A g \in ret.before : SingleSymbol(g)
  /\ \E g \in ret.before, h \in ret.before : first_value(g) # first_value(h)
  /\ \E g \in ret.before : g \notin stabilizer_generators
  /\ \E g \in stabilizer_generators : g \notin ret.before

====
